---- MODULE Spec2Model ----
(***************************************************************************)
(* Model of package benwh (src/benwh.go) and of its example program        *)
(* (src/README.md, "func main"): the login, the configuration file, the    *)
(* request and the response of Conn.Status, and the polling loop.          *)
(*                                                                         *)
(* Representation.                                                         *)
(*   - A Go string / []byte is a sequence of byte values (0..255); the     *)
(*     comment beside a literal gives its text.                            *)
(*   - A uint32 is a pair <<hi, lo>> of 16-bit halves (value hi*2^16+lo),  *)
(*     so that all 32 bits of a CRC are kept.                              *)
(*   - A decoded float64 field is kept as the digits of its JSON number.   *)
(*   - A time.Duration is kept as the four 16-bit limbs of its int64.      *)
(*                                                                         *)
(* Specifications.                                                         *)
(*   - Spec: the loop under every flag setting, one reply for each result  *)
(*     of Status.                                                          *)
(*   - SpecAnyReply: the loop polling for MaxPoll samples, every reply.    *)
(*   - SpecLive: the loop without fatal replies, with fairness.            *)
(*   - SpecRetryRun: the loop under MaxRetries "retry later" replies.      *)
(*   - SpecMain: main from its first statement.                            *)
(*   - SpecRoundTrip: the checksum's text form, formatted and parsed.      *)
(***************************************************************************)
EXTENDS Integers, Sequences, FiniteSets, TLC

(***************************************************************************)
(* uint32 arithmetic on <<hi, lo>> pairs.                                  *)
(***************************************************************************)

\* Bitwise exclusive or of two naturals below 2^n.
RECURSIVE XorBits(_, _, _)
XorBits(a, b, n) ==
    IF n = 0 THEN 0
    ELSE (((a % 2) + (b % 2)) % 2) + 2 * XorBits(a \div 2, b \div 2, n - 1)

\* Exclusive or of two 4-bit values, tabulated.
Xor4 == [a \in 0..15 |-> [b \in 0..15 |-> XorBits(a, b, 4)]]

Xor8(a, b) == Xor4[a \div 16][b \div 16] * 16 + Xor4[a % 16][b % 16]

Xor16(a, b) == Xor8(a \div 256, b \div 256) * 256 + Xor8(a % 256, b % 256)

Xor32(x, y) == <<Xor16(x[1], y[1]), Xor16(x[2], y[2])>>

Shr1(x) == <<x[1] \div 2, (x[1] % 2) * 32768 + x[2] \div 2>>

Shr8(x) == <<x[1] \div 256, (x[1] % 256) * 256 + x[2] \div 256>>

\* 0xFFFFFFFF
MaxUint32 == <<65535, 65535>>

Zero32 == <<0, 0>>

(***************************************************************************)
(* hash/crc32: ChecksumIEEE, the table-driven CRC-32 with the reflected    *)
(* IEEE polynomial 0xEDB88320, initial value and final xor 0xFFFFFFFF.     *)
(***************************************************************************)

IEEEPoly == <<60856, 33568>>

RECURSIVE TableEntry(_, _)
TableEntry(c, k) ==
    IF k = 0 THEN c
    ELSE TableEntry(IF c[2] % 2 = 1 THEN Xor32(Shr1(c), IEEEPoly) ELSE Shr1(c), k - 1)

IEEETable == [i \in 0..255 |-> TableEntry(<<0, i>>, 8)]

\* One byte b shifted into the CRC register crc.
CrcStep(crc, b) == Xor32(IEEETable[Xor8(crc[2] % 256, b)], Shr8(crc))

\* The CRC register after the first i bytes of p (the register of the
\* shorter prefix is bound once, as a value, and then stepped).
RECURSIVE CrcUpdate(_, _)
CrcUpdate(p, i) ==
    IF i = 0 THEN MaxUint32
    ELSE CHOOSE r \in {CrcStep(crc, p[i]) : crc \in {CrcUpdate(p, i - 1)}} : TRUE

ChecksumIEEE(p) == Xor32(CrcUpdate(p, Len(p)), MaxUint32)

(***************************************************************************)
(* fmt.Sprintf("%q", s): strconv.Quote for strings of printable ASCII.     *)
(* The string is wrapped in double quotes (34); a double quote or a        *)
(* backslash (92) inside it is preceded by a backslash.                    *)
(***************************************************************************)

RECURSIVE QuoteBody(_, _)
QuoteBody(s, i) ==
    IF i > Len(s) THEN <<>>
    ELSE (IF s[i] \in {34, 92} THEN <<92, s[i]>> ELSE <<s[i]>>) \o QuoteBody(s, i + 1)

Quote(s) == <<34>> \o QuoteBody(s, 1) \o <<34>>

(***************************************************************************)
(* fmt.Sprintf("%08X", c): 8 upper-case hex digits, zero padded.           *)
(***************************************************************************)

HexUpper(d) == IF d < 10 THEN 48 + d ELSE 55 + d

Hex4(h) == << HexUpper(h \div 4096), HexUpper((h \div 256) % 16),
              HexUpper((h \div 16) % 16), HexUpper(h % 16) >>

Sprintf08X(c) == Hex4(c[1]) \o Hex4(c[2])

(***************************************************************************)
(* strconv.ParseUint(s, 16, 32).  The digits are consumed left to right;   *)
(* the first byte that is no hex digit ends the parse with (0, ErrSyntax), *)
(* the first digit that takes the value past 2^32 - 1 ends it with         *)
(* (2^32 - 1, ErrRange).  The empty string is a syntax error.              *)
(***************************************************************************)

\* Mutant: the letters A..F are not taken for digits.
HexDigitLowerOnly(c) ==
    IF c >= 48 /\ c <= 57 THEN c - 48
    ELSE IF c >= 97 /\ c <= 102 THEN c - 87
    ELSE 16

\* The digit value of byte c in base 16, or 16 when c is no hex digit.
HexDigit(c) ==
    IF c >= 48 /\ c <= 57 THEN c - 48
    ELSE IF c >= 97 /\ c <= 102 THEN c - 87
    ELSE IF c >= 65 /\ c <= 70 THEN c - 55
    ELSE 16

RECURSIVE ParseDigits(_, _, _)
ParseDigits(s, i, n) ==
    IF i > Len(s) THEN [val |-> n, err |-> "nil"]
    ELSE IF HexDigit(s[i]) >= 16 THEN [val |-> Zero32, err |-> "ErrSyntax"]
    ELSE IF n[1] >= 4096 THEN [val |-> MaxUint32, err |-> "ErrRange"]
    ELSE ParseDigits(s, i + 1,
                     << n[1] * 16 + n[2] \div 4096,
                        (n[2] % 4096) * 16 + HexDigit(s[i]) >>)

ParseUint(s) ==
    IF s = <<>> THEN [val |-> Zero32, err |-> "ErrSyntax"]
    ELSE ParseDigits(s, 1, Zero32)

(***************************************************************************)
(* encoding/json.  A JSON value of a response body is kept as a token:     *)
(* t is "num" (n holds the integer), "str" (s holds the bytes) or "absent".*)
(* A body is the token form of the text the server sent: kind is "object"  *)
(* for a well-formed JSON object, "array" for well-formed JSON that is no  *)
(* object, and "syntax" for text that is not JSON (for instance an object  *)
(* cut short), whose fields are the ones the text shows before the fault.  *)
(***************************************************************************)

Num(n) == [t |-> "num", n |-> n, s |-> <<>>]

Str(s) == [t |-> "str", n |-> 0, s |-> s]

Absent == [t |-> "absent", n |-> 0, s |-> <<>>]

\* MQTTResponse, with the fields Status reads and one it does not (Total).
ZeroMQTTResponse == [Code |-> 0, Total |-> 0, CRC |-> <<>>, DataArea |-> <<>>]

IntField(v) == IF v.t = "num" THEN v.n ELSE 0

StringField(v) == IF v.t = "str" THEN v.s ELSE <<>>

\* json.Unmarshal(d, &mresp).  Unmarshal first validates the whole text and
\* on a syntax error leaves the target untouched.  A value of the wrong
\* type for its field leaves that field at its zero value, decoding goes on
\* with the fields that follow, and the first such error is returned.
UnmarshalResponse(body) ==
    IF body.kind = "syntax"
    THEN [val |-> ZeroMQTTResponse, err |-> "SyntaxError"]
    ELSE IF body.kind = "array"
    THEN [val |-> ZeroMQTTResponse, err |-> "UnmarshalTypeError"]
    ELSE [val |-> [Code     |-> IntField(body.code),
                   Total    |-> IntField(body.total),
                   CRC      |-> StringField(body.crc),
                   DataArea |-> StringField(body.dataArea)],
          err |-> IF \/ body.code.t = "str"
                     \/ body.total.t = "str"
                     \/ body.crc.t = "num"
                     \/ body.dataArea.t = "num"
                  THEN "UnmarshalTypeError" ELSE "nil"]

(***************************************************************************)
(* The inner payload is text (bytes).  The decoder below recognises the    *)
(* JSON objects with at most the one member "soc":                         *)
(*      {}      {"soc":<integer>}      {"soc":"<text>"}                    *)
(* and takes every other text for a syntax error, which is right for the   *)
(* payloads of this model (DataAreas below).  DataStatus is kept as its    *)
(* Soc field, a float64, held as the decimal digits of the JSON number.    *)
(***************************************************************************)

ZeroDataStatus == [nil |-> FALSE, Soc |-> <<0>>]

\* The nil *DataStatus.
NilDataStatus == [nil |-> TRUE, Soc |-> <<>>]

\* {"soc":
SocPrefix == <<123, 34, 115, 111, 99, 34, 58>>

IsDigits(v) ==
    /\ Len(v) >= 1
    /\ \A i \in 1..Len(v) : v[i] >= 48 /\ v[i] <= 57
    /\ (Len(v) > 1 => v[1] # 48)

IsStringLiteral(v) ==
    /\ Len(v) >= 2
    /\ v[1] = 34 /\ v[Len(v)] = 34
    /\ \A i \in 2..(Len(v) - 1) : v[i] >= 32 /\ v[i] \notin {34, 92}

\* json.Unmarshal([]byte(dataArea), resp) with resp a new DataStatus.
UnmarshalDataStatus(d) ==
    IF d = <<123, 125>>
    THEN [val |-> ZeroDataStatus, err |-> "nil"]
    ELSE IF /\ Len(d) > Len(SocPrefix) + 1
            /\ SubSeq(d, 1, Len(SocPrefix)) = SocPrefix
            /\ d[Len(d)] = 125
    THEN LET v == SubSeq(d, Len(SocPrefix) + 1, Len(d) - 1)
         IN  IF IsDigits(v)
             THEN [val |-> [nil |-> FALSE, Soc |-> [i \in 1..Len(v) |-> v[i] - 48]],
                   err |-> "nil"]
             ELSE IF IsStringLiteral(v)
             THEN [val |-> ZeroDataStatus, err |-> "UnmarshalTypeError"]
             ELSE [val |-> ZeroDataStatus, err |-> "SyntaxError"]
    ELSE [val |-> ZeroDataStatus, err |-> "SyntaxError"]

(***************************************************************************)
(* Errors returned by Status: kind is the text of the error, code the      *)
(* status code an "unexpected mqtt code" error carries.                    *)
(***************************************************************************)

ErrNil == [kind |-> "nil", code |-> 0]

ErrRetryLater == [kind |-> "retry later", code |-> 0]

Errorf(text) == [kind |-> text, code |-> 0]

ErrUnexpectedCode(c) == [kind |-> "unexpected mqtt code", code |-> c]

(***************************************************************************)
(* Conn.Status, from the reply of the HTTP exchange on.  ans is what the   *)
(* network hands back: do is the outcome of client.Do, read the outcome of *)
(* io.ReadAll, body the text read.  The result is the pair (resp, err).    *)
(***************************************************************************)

Return(r, e) == [resp |-> r, err |-> e]

\* Mutant: the switch has no case 102.
CodeCaseNo102(code) == IF code = 200 THEN "ok" ELSE "default"

\* Mutant: the switch has no default case.
CodeCaseNoDefault(code) == IF code = 102 THEN "retry" ELSE "ok"

\* The switch on mresp.Code.
CodeCase(code) ==
    IF code = 102 THEN "retry"
    ELSE IF code = 200 THEN "ok"
    ELSE "default"

\* Mutant: the record is allocated before the checksum is compared, and is
\* returned with the mismatch error.
CheckAgainstAllocatesFirst(checksum, mresp, err) ==
    LET parsed   == ParseUint(mresp.CRC)
        got      == parsed.val
        decoded  == UnmarshalDataStatus(mresp.DataArea)
    IN  IF err # ErrNil
        THEN Return(NilDataStatus, Errorf("invalid CRC return, not hex"))
        ELSE IF got # checksum
        THEN Return(ZeroDataStatus, Errorf("invalid CRC return"))
        ELSE IF err # ErrNil
        THEN Return(decoded.val, Errorf("status report decode error"))
        ELSE Return(decoded.val, err)

\* Lines 257-271: the checksum test against checksum, and the decoding of
\* the payload.  err is the named result, which no path reaching these lines
\* has assigned; the tests of lines 258 and 266 read it, not the err2 of
\* their own statement.
CheckAgainst(checksum, mresp, err) ==
    LET parsed   == ParseUint(mresp.CRC)
        got      == parsed.val
        decoded  == UnmarshalDataStatus(mresp.DataArea)
    IN  IF err # ErrNil
        THEN Return(NilDataStatus, Errorf("invalid CRC return, not hex"))
        ELSE IF got # checksum
        THEN Return(NilDataStatus, Errorf("invalid CRC return"))
        ELSE IF err # ErrNil
        THEN Return(decoded.val, Errorf("status report decode error"))
        ELSE Return(decoded.val, err)

\* Mutant: the checksum is taken over the payload's bytes, not its quoted form.
CheckAndDecodeUnquoted(mresp, err) ==
    CheckAgainst(ChecksumIEEE(mresp.DataArea), mresp, err)

CheckAndDecode(mresp, err) ==
    CheckAgainst(ChecksumIEEE(Quote(mresp.DataArea)), mresp, err)

Status(ans) ==
    LET err   == ErrNil
        um    == UnmarshalResponse(ans.body)
        mresp == um.val
    IN  IF ans.do # "ok" THEN Return(NilDataStatus, Errorf("query failed"))
        ELSE IF ans.read # "ok" THEN Return(NilDataStatus, Errorf("failed to read body"))
        ELSE IF err # ErrNil
        THEN Return(NilDataStatus, Errorf("mqtt response decode error"))
        ELSE IF CodeCase(mresp.Code) = "retry" THEN Return(NilDataStatus, ErrRetryLater)
        ELSE IF CodeCase(mresp.Code) = "default"
        THEN Return(NilDataStatus, ErrUnexpectedCode(mresp.Code))
        ELSE CheckAndDecode(mresp, err)

(***************************************************************************)
(* The replies the server can give.                                        *)
(***************************************************************************)

\* {"soc":99}
PayloadSoc99 == <<123, 34, 115, 111, 99, 34, 58, 57, 57, 125>>

\* {"soc":1948824976}    the CRC-32 of its quoted form is 00000000
PayloadCrcZero ==
    <<123, 34, 115, 111, 99, 34, 58, 49, 57, 52, 56, 56, 50, 52, 57, 55, 54, 125>>

\* {"soc":8522780754}    the CRC-32 of its quoted form is FFFFFFFF
PayloadCrcMax ==
    <<123, 34, 115, 111, 99, 34, 58, 56, 53, 50, 50, 55, 56, 48, 55, 53, 52, 125>>

\* {"soc":9              an object cut short
PayloadTruncated == <<123, 34, 115, 111, 99, 34, 58, 57>>

\* {"soc":"x"}           a string where a number is expected
PayloadWrongType == <<123, 34, 115, 111, 99, 34, 58, 34, 120, 34, 125>>

\* {}
PayloadEmptyObject == <<123, 125>>

DataAreas ==
    { PayloadSoc99, PayloadCrcZero, PayloadCrcMax, PayloadTruncated,
      PayloadWrongType, PayloadEmptyObject, <<>> }

ToLower(s) == [i \in 1..Len(s) |-> IF s[i] >= 65 /\ s[i] <= 90 THEN s[i] + 32 ELSE s[i]]

\* Declared checksums that do not depend on the payload:
\*   ""   "ZZ"   "100000000" (nine digits, 2^32)   "0"   "FFFFFFFF"
FixedChecksums ==
    { <<>>, <<90, 90>>, <<49, 48, 48, 48, 48, 48, 48, 48, 48>>, <<48>>,
      <<70, 70, 70, 70, 70, 70, 70, 70>> }

\* The declared checksums sent along with payload d: the server's own, in
\* upper and in lower case, and the fixed ones.
ChecksumsFor(d) ==
    { Sprintf08X(ChecksumIEEE(Quote(d))), ToLower(Sprintf08X(ChecksumIEEE(Quote(d)))) }
        \cup FixedChecksums

\* The code member of a body: 102, 200, other numbers, a string ("x"), none.
Codes == { Num(102), Num(200), Num(0), Num(201), Num(404), Str(<<120>>), Absent }

\* The (crc, dataArea) members a body can show: every payload with each of
\* its declared checksums, and either member with a number in its place.
ResultMembers ==
    UNION { { [crc |-> Str(x), dataArea |-> Str(d)] : x \in ChecksumsFor(d) } \cup
            { [crc |-> Num(7), dataArea |-> Str(d)] } : d \in DataAreas }
        \cup { [crc |-> Str(x), dataArea |-> Num(7)] : x \in FixedChecksums }

Body(k, c, t, m) ==
    [kind |-> k, code |-> c, total |-> t, crc |-> m.crc, dataArea |-> m.dataArea]

\* Well-formed objects, and texts that fail to parse although they show a
\* code of 102 or 200 and a checksum that fits the payload.
Bodies ==
    { Body("object", c, t, m) : c \in Codes, t \in {Num(1), Str(<<120>>)}, m \in ResultMembers }
        \cup { Body(k, c, Num(1), [crc |-> Str(Sprintf08X(ChecksumIEEE(Quote(PayloadSoc99)))),
                                    dataArea |-> Str(PayloadSoc99)]) :
                  k \in {"syntax", "array"}, c \in {Num(102), Num(200)} }

NoBody == Body("syntax", Absent, Absent, [crc |-> Absent, dataArea |-> Absent])

Answers ==
    { [do |-> "ok", read |-> "ok", body |-> b] : b \in Bodies }
        \cup { [do |-> "fail", read |-> "ok", body |-> NoBody],
               [do |-> "ok", read |-> "fail", body |-> NoBody] }

\* The value of ans while no call has returned.
NoAnswer == [do |-> "none", read |-> "none", body |-> NoBody]

(***************************************************************************)
(* NewConn.  la is what the network hands back to the login request: post  *)
(* is the outcome of PostForm, read the outcome of io.ReadAll, body the    *)
(* token form of the text read, of which the model keeps the status code   *)
(* and result.token.  A Config is kept as its Device list: Email and       *)
(* Password only travel to the server, whose reply is free in any case.    *)
(***************************************************************************)

\* The zero Config.
ZeroConfig == [Device |-> <<>>]

\* The nil *Conn.
NilConn == [nil |-> TRUE, config |-> ZeroConfig, token |-> <<>>]

\* LoginResponse, as the fields kept.
ZeroLoginResponse == [Code |-> 0, Token |-> <<>>]

\* json.Unmarshal(d, &resp) with resp a LoginResponse.
UnmarshalLogin(body) ==
    IF body.kind = "syntax"
    THEN [val |-> ZeroLoginResponse, err |-> "SyntaxError"]
    ELSE IF body.kind = "array"
    THEN [val |-> ZeroLoginResponse, err |-> "UnmarshalTypeError"]
    ELSE [val |-> [Code |-> IntField(body.code), Token |-> StringField(body.token)],
          err |-> IF body.code.t = "str" \/ body.token.t = "num"
                  THEN "UnmarshalTypeError" ELSE "nil"]

NewConn(c, la) ==
    IF la.post # "ok" THEN [conn |-> NilConn, err |-> Errorf("post failed")]
    ELSE IF la.read # "ok" THEN [conn |-> NilConn, err |-> Errorf("read failed")]
    ELSE IF UnmarshalLogin(la.body).err # "nil"
    THEN [conn |-> NilConn, err |-> Errorf(UnmarshalLogin(la.body).err)]
    ELSE [conn |-> [nil |-> FALSE, config |-> c,
                    token |-> UnmarshalLogin(la.body).val.Token],
          err |-> ErrNil]

\* A token the server issues ("T0K").
SomeToken == <<84, 48, 75>>

LoginBody(k, c, t) == [kind |-> k, code |-> c, token |-> t]

NoLoginBody == LoginBody("none", Absent, Absent)

\* Login replies: the exchange fails; the text is no JSON, no object, or has
\* a member of the wrong type; the login is granted with a token; the login
\* is refused in well-formed JSON, with no token or an empty one.
LoginAnswers ==
    { [post |-> "fail", read |-> "ok", body |-> NoLoginBody],
      [post |-> "ok", read |-> "fail", body |-> NoLoginBody] }
      \cup { [post |-> "ok", read |-> "ok", body |-> x] :
               x \in { LoginBody("syntax", Num(200), Str(SomeToken)),
                       LoginBody("array", Absent, Absent),
                       LoginBody("object", Num(200), Num(7)),
                       LoginBody("object", Str(<<120>>), Str(SomeToken)),
                       LoginBody("object", Num(200), Str(SomeToken)),
                       LoginBody("object", Num(400), Absent),
                       LoginBody("object", Num(400), Str(<<>>)),
                       LoginBody("object", Absent, Absent) } }

(***************************************************************************)
(* The request envelope of Conn.Status: encoding/json.Marshal of the       *)
(* MQTTRequest, then bytes.Replace of the quoted placeholder by the inner  *)
(* payload.                                                                *)
(***************************************************************************)

\* The decimal digits of n >= 0, as json.Marshal writes an integer.
RECURSIVE Itoa(_)
Itoa(n) == IF n < 10 THEN <<48 + n>> ELSE Itoa(n \div 10) \o <<48 + (n % 10)>>

HexLower(d) == IF d < 10 THEN 48 + d ELSE 87 + d

\* json.Marshal's encoding of one ASCII byte of a string: the quote and the
\* backslash are escaped with a backslash, \n, \r and \t by their letters,
\* other control bytes and <, >, & as \u00XX.  (Bytes 8 and 12, whose
\* encoding differs between Go releases, and bytes above 127 are in no
\* string of this model.)
MarshalByte(c) ==
    IF c = 34 THEN <<92, 34>>
    ELSE IF c = 92 THEN <<92, 92>>
    ELSE IF c = 10 THEN <<92, 110>>
    ELSE IF c = 13 THEN <<92, 114>>
    ELSE IF c = 9 THEN <<92, 116>>
    ELSE IF c < 32 \/ c \in {38, 60, 62}
    THEN <<92, 117, 48, 48, HexLower(c \div 16), HexLower(c % 16)>>
    ELSE <<c>>

RECURSIVE MarshalBytes(_, _)
MarshalBytes(s, i) ==
    IF i > Len(s) THEN <<>> ELSE MarshalByte(s[i]) \o MarshalBytes(s, i + 1)

MarshalString(s) == <<34>> \o MarshalBytes(s, 1) \o <<34>>

\* json.Marshal(send): the members in the order of the struct's fields,
\*   {"lang":  ,"cmdType":  ,"equipNo":  ,"type":  ,"timeStamp":  ,"snno":
\*   ,"len":  ,"crc":  ,"dataArea":  }
\* (Marshal cannot fail on a struct of strings and integers.)
MarshalRequest(send) ==
    <<123, 34, 108, 97, 110, 103, 34, 58>> \o MarshalString(send.Lang)
    \o <<44, 34, 99, 109, 100, 84, 121, 112, 101, 34, 58>> \o Itoa(send.CmdType)
    \o <<44, 34, 101, 113, 117, 105, 112, 78, 111, 34, 58>> \o MarshalString(send.EquipNo)
    \o <<44, 34, 116, 121, 112, 101, 34, 58>> \o Itoa(send.Type)
    \o <<44, 34, 116, 105, 109, 101, 83, 116, 97, 109, 112, 34, 58>> \o Itoa(send.TimeStamp)
    \o <<44, 34, 115, 110, 110, 111, 34, 58>> \o Itoa(send.Snno)
    \o <<44, 34, 108, 101, 110, 34, 58>> \o Itoa(send.Len)
    \o <<44, 34, 99, 114, 99, 34, 58>> \o MarshalString(send.CRC)
    \o <<44, 34, 100, 97, 116, 97, 65, 114, 101, 97, 34, 58>> \o MarshalString(send.DataArea)
    \o <<125>>

\* bytes.Index(s, sep), counted from 1; 0 when sep does not occur in s.
Index(s, sep) ==
    LET hits == {i \in 1..(Len(s) - Len(sep) + 1) :
                    SubSeq(s, i, i + Len(sep) - 1) = sep}
    IN  IF hits = {} THEN 0 ELSE CHOOSE i \in hits : \A k \in hits : i <= k

\* bytes.Replace(s, old, new, 1): the first occurrence of old is replaced.
Replace(s, old, new) ==
    LET i == Index(s, old)
    IN  IF i = 0 THEN s
        ELSE SubSeq(s, 1, i - 1) \o new \o SubSeq(s, i + Len(old), Len(s))

\* {"opt":1,"refreshData":1}
req == <<123, 34, 111, 112, 116, 34, 58, 49, 44, 34, 114, 101, 102, 114, 101, 115, 104, 68, 97, 116, 97, 34, 58, 49, 125>>

\* :data-area:
DataAreaPlaceholder == <<58, 100, 97, 116, 97, 45, 97, 114, 101, 97, 58>>

\* send, for the device and the time of the call.
Send(dev, now) ==
    [Lang      |-> <<69, 78, 95, 85, 83>>,
     CmdType   |-> 203,
     EquipNo   |-> dev,
     Type      |-> 0,
     TimeStamp |-> now,
     Snno      |-> 1,
     Len       |-> Len(req),
     CRC       |-> Sprintf08X(ChecksumIEEE(req)),
     DataArea  |-> DataAreaPlaceholder]

\* j, the body of the request Status posts.
RequestBody(dev, now) ==
    Replace(MarshalRequest(Send(dev, now)),
            <<34>> \o DataAreaPlaceholder \o <<34>>, req)

\* The value of sent while no request has been built.
NoRequest == [now |-> 0, j |-> <<>>]

(***************************************************************************)
(* time.Duration: an int64 count of nanoseconds, kept as its four 16-bit   *)
(* limbs <<l3, l2, l1, l0>> (two's complement, most significant first) so  *)
(* that arithmetic wraps where Go's wraps.                                 *)
(***************************************************************************)

ZeroDuration == <<0, 0, 0, 0>>

\* time.Second: 1000000000 = 0x3B9ACA00 nanoseconds.
Second == <<0, 0, 15258, 51712>>

\* d * n in int64, for a natural n below 2^15.
Times(d, n) ==
    LET p0 == d[4] * n
        p1 == d[3] * n + (p0 \div 65536)
        p2 == d[2] * n + (p1 \div 65536)
        p3 == d[1] * n + (p2 \div 65536)
    IN  <<p3 % 65536, p2 % 65536, p1 % 65536, p0 % 65536>>

\* n * time.Second
Seconds(n) == Times(Second, n)

\* The sign bit of d.
IsNegative(d) == d[1] >= 32768

(***************************************************************************)
(* The polling loop of the example program (README.md, func main, from     *)
(* "samples := 0" on), run on a connection NewConn has returned.           *)
(*                                                                         *)
(* events is what the program has done that an observer can see, in       *)
(* order: [e |-> "sleep", d |-> duration] for a time.Sleep, and for a line *)
(* logged [e |-> "header"], [e |-> "sample"], [e |-> "debug"] (the record  *)
(* dumped), [e |-> "nodata"] (the retry notice, d the wait announced) and  *)
(* [e |-> "fatal"]; d is ZeroDuration where the event has no duration.     *)
(*                                                                         *)
(* pc is where the program stands: "start" (before the configuration is    *)
(* created or read), "login" (before NewConn), "save" (after it), "status" *)
(* (top of the loop body), "switch" (Status has returned), and at its end  *)
(* "done" (the loop was left), "exit" (log.Fatalf) or "panic".             *)
(***************************************************************************)

\* Status calls modelled in one run.
MaxCalls == 4

\* Largest --poll value tried; the smallest is -1.
MaxPoll == 2

\* backoff := 5 * time.Second
BaseBackoff == 5

\* A positive --delay, in seconds.
Delays == {0, 60}

\* A device identifier ("A1"), the placeholder text as an identifier, and
\* the placeholder text in quotes as an identifier.
DeviceIds ==
    { <<65, 49>>, DataAreaPlaceholder, <<34>> \o DataAreaPlaceholder \o <<34>> }

\* time.Now().Unix() at a call: 2024-11-17 23:38:15 UTC and a second later.
UnixTimes == {1731886695, 1731886696}

\* The value of hex in a run of the program (see the round trip below).
NoRoundTrip ==
    [at |-> "none", checksum |-> Zero32, crc |-> <<>>,
     got |-> [val |-> Zero32, err |-> "nil"]]

VARIABLES pc, poll, delay, debug, samples, backoff, first, ans, resp, err, calls, events,
          newLogin, conf, conn, saved, sent, hex

vars == <<pc, poll, delay, debug, samples, backoff, first, ans, resp, err, calls, events,
          newLogin, conf, conn, saved, sent, hex>>

\* What the loop leaves alone: the flag, the configuration and its file, and
\* the connection (and hex, which no statement of main touches).
session == <<newLogin, conf, conn, saved, hex>>

\* A connection NewConn returns for configuration c.
Established(c) == [nil |-> FALSE, config |-> c, token |-> SomeToken]

Event(e, d) == [e |-> e, d |-> d]

\* The program at the top of its loop, run with a configuration file that
\* names one device.
AtLoop ==
    /\ pc = "status"
    /\ newLogin = FALSE
    /\ conf = [Device |-> << <<65, 49>> >>]
    /\ conn = Established(conf)
    /\ saved = FALSE
    /\ sent = NoRequest
    /\ poll \in -1..MaxPoll
    /\ delay \in Delays
    /\ debug \in BOOLEAN
    /\ samples = 0
    /\ backoff = Seconds(BaseBackoff)
    /\ first = TRUE
    /\ ans = NoAnswer
    /\ resp = NilDataStatus
    /\ err = ErrNil
    /\ calls = 0
    /\ events = <<>>

Init == AtLoop /\ hex = NoRoundTrip

\* resp, err := conn.Status(), the server's reply being one of replies, in a
\* run of at most limit calls.
CallStatusWithin(replies, limit) ==
    /\ pc = "status"
    /\ calls < limit
    /\ conn.config.Device # <<>>
    /\ \E now \in UnixTimes :
          sent' = [now |-> now, j |-> RequestBody(conn.config.Device[1], now)]
    /\ \E a \in replies :
          \E r \in {Status(a)} :
             /\ ans' = a
             /\ resp' = r.resp
             /\ err' = r.err
    /\ calls' = calls + 1
    /\ pc' = "switch"
    /\ UNCHANGED <<poll, delay, debug, samples, backoff, first, events>>
    /\ UNCHANGED session

CallStatus(replies) == CallStatusWithin(replies, MaxCalls)

\* conn.config.Device[0] with no device configured: the index is out of
\* range and the program panics.
StatusPanics ==
    /\ pc = "status"
    /\ conn.config.Device = <<>>
    /\ pc' = "panic"
    /\ UNCHANGED <<poll, delay, debug, samples, backoff, first, ans, resp, err,
                   calls, events, sent>>
    /\ UNCHANGED session

\* resp and err are variables of the loop body: they (and the request and
\* the reply they came from) are gone when the iteration ends; the loop
\* touches nothing of the session.
EndOfIteration ==
    /\ ans' = NoAnswer
    /\ resp' = NilDataStatus
    /\ err' = ErrNil
    /\ sent' = NoRequest
    /\ UNCHANGED session

\* The lines logged for a sample.
SampleLines ==
    IF debug THEN <<Event("debug", ZeroDuration)>>
    ELSE (IF first THEN <<Event("header", ZeroDuration)>> ELSE <<>>) \o <<Event("sample", ZeroDuration)>>

\* Mutant: the sample is not counted.
CountSampleNever(n) == n

\* if samples >= 0 { samples++ }
CountSample(n) == IF n >= 0 THEN n + 1 ELSE n

\* case nil with the backoff set to b, and the rest of the loop body.
NilStep(b) ==
    /\ pc = "switch"
    /\ err = ErrNil
    /\ backoff' = b
    /\ IF delay = 0
       THEN /\ pc' = "done"
            /\ events' = events \o SampleLines
            /\ UNCHANGED <<samples, first>>
       ELSE /\ samples' = CountSample(samples)
            /\ IF samples' = poll
               THEN /\ pc' = "done"
                    /\ events' = events \o SampleLines
                    /\ UNCHANGED first
               ELSE /\ pc' = "status"
                    /\ events' = events \o SampleLines \o <<Event("sleep", Seconds(delay))>>
                    /\ first' = FALSE
    /\ EndOfIteration
    /\ UNCHANGED <<poll, delay, debug, calls>>

\* Mutant: a success leaves the backoff as it is.
CaseNilKeepsBackoff == NilStep(backoff)

CaseNil == NilStep(Seconds(BaseBackoff))

\* case benwh.ErrRetryLater: the backoff is doubled, wait is announced and
\* slept, and the loop continues.
RetryStep(wait) ==
    /\ pc = "switch"
    /\ err = ErrRetryLater
    /\ backoff' = Times(backoff, 2)
    /\ events' = events \o <<Event("nodata", wait), Event("sleep", wait)>>
    /\ first' = FALSE
    /\ pc' = "status"
    /\ EndOfIteration
    /\ UNCHANGED <<poll, delay, debug, samples, calls>>

\* Mutant: the wait is the backoff before it is doubled.
CaseRetryLaterWaitsFirst == RetryStep(backoff)

CaseRetryLater == RetryStep(Times(backoff, 2))

\* default: the error is logged and the program goes on at next.
DefaultStep(next) ==
    /\ pc = "switch"
    /\ err \notin {ErrNil, ErrRetryLater}
    /\ events' = Append(events, Event("fatal", ZeroDuration))
    /\ pc' = next
    /\ (next = "status" => first' = FALSE)
    /\ (next # "status" => first' = first)
    /\ EndOfIteration
    /\ UNCHANGED <<poll, delay, debug, samples, backoff, calls>>

\* Mutant: the error is logged with log.Printf and the loop goes on.
CaseDefaultContinues == DefaultStep("status")

\* default: log.Fatalf, which ends the process.
CaseDefault == DefaultStep("exit")

Reply(k, c, x, d) ==
    [do |-> "ok", read |-> "ok",
     body |-> Body(k, Num(c), Num(1), [crc |-> Str(x), dataArea |-> Str(d)])]

OwnChecksum(d) == Sprintf08X(ChecksumIEEE(Quote(d)))

\* One reply for each result Status can return (RepresentativesCoverResults):
\* the loop reads nothing of a reply but that result.
Representatives ==
    { Reply("object", 200, OwnChecksum(PayloadSoc99), PayloadSoc99),
      Reply("object", 200, OwnChecksum(PayloadEmptyObject), PayloadEmptyObject),
      Reply("object", 200, OwnChecksum(PayloadCrcZero), PayloadCrcZero),
      Reply("object", 200, OwnChecksum(PayloadCrcMax), PayloadCrcMax),
      Reply("object", 200, <<48>>, PayloadSoc99),
      Reply("object", 102, OwnChecksum(PayloadSoc99), PayloadSoc99),
      Reply("object", 0, OwnChecksum(PayloadSoc99), PayloadSoc99),
      Reply("object", 201, OwnChecksum(PayloadSoc99), PayloadSoc99),
      Reply("object", 404, OwnChecksum(PayloadSoc99), PayloadSoc99),
      [do |-> "fail", read |-> "ok", body |-> NoBody],
      [do |-> "ok", read |-> "fail", body |-> NoBody] }

RepresentativesCoverResults ==
    /\ Representatives \subseteq Answers
    /\ {Status(a) : a \in Representatives} = {Status(a) : a \in Answers}

\* The program under every flag setting, a reply of each kind at each call.
Next == CallStatus(Representatives) \/ CaseNil \/ CaseRetryLater \/ CaseDefault

Spec == Init /\ [][Next]_vars

\* The program polling for MaxPoll samples, every reply at each call.
InitAnyReply == Init /\ poll = MaxPoll /\ delay = 60 /\ debug = FALSE

NextAnyReply == CallStatus(Answers) \/ CaseNil \/ CaseRetryLater \/ CaseDefault

SpecAnyReply == InitAnyReply /\ [][NextAnyReply]_vars

(***************************************************************************)
(* The loop in runs without a fatal error and with finitely many retryable *)
(* outcomes: the server answers a call with a record or, while the calls   *)
(* left after it suffice for the samples still to take, "retry later".     *)
(* The program is one sequential process that takes its next step whenever *)
(* it has one (a call returns, a time.Sleep ends), hence the weak fairness *)
(* of its steps.  The fairness is stated on pc, which every step changes:  *)
(* a step is possible at "status" while calls remain and at "switch".      *)
(***************************************************************************)

\* Successful calls the loop still needs before it stops.
SamplesToTake == IF delay = 0 THEN 1 ELSE poll - samples

SuccessReply == Reply("object", 200, OwnChecksum(PayloadSoc99), PayloadSoc99)

RetryReply == Reply("object", 102, OwnChecksum(PayloadSoc99), PayloadSoc99)

RepliesWithoutFatal ==
    {SuccessReply} \cup (IF calls + SamplesToTake < MaxCalls THEN {RetryReply} ELSE {})

\* The flag settings under which the loop is meant to stop: --delay=0, or
\* --poll at least 1.
InitLive == Init /\ (delay = 0 \/ poll >= 1)

NextLive == CallStatus(RepliesWithoutFatal) \/ CaseNil \/ CaseRetryLater

\* A step of the loop, as the change of pc it makes.
LoopStep ==
    \/ pc = "status" /\ calls < MaxCalls /\ pc' = "switch"
    \/ pc = "switch" /\ pc' \in {"status", "done"}

SpecLive == InitLive /\ [][NextLive]_vars /\ WF_pc(LoopStep)

(***************************************************************************)
(* The loop under a server that answers every call "retry later", for runs *)
(* of MaxRetries calls: long enough for the backoff, doubled at each, to   *)
(* pass the range of time.Duration.                                        *)
(***************************************************************************)

\* Status calls modelled in a run of retries.
MaxRetries == 56

\* The program at the top of its loop with the default flags.
InitRetryRun == Init /\ poll = 1 /\ delay = 0 /\ debug = FALSE

NextRetryRun == CallStatusWithin({RetryReply}, MaxRetries) \/ CaseRetryLater

SpecRetryRun == InitRetryRun /\ [][NextRetryRun]_vars

(***************************************************************************)
(* func main from its first statement: the configuration is created or     *)
(* read, NewConn logs in, --newlogin writes the configuration file, and    *)
(* the loop runs.  log.Fatalf logs the error and ends the process.         *)
(***************************************************************************)

\* Device lists createConfig returns: strings.Split of --devices when its
\* first element is not empty, and otherwise the one identifier typed.
CreatedDevices ==
    { <<d>> : d \in DeviceIds } \cup { << <<65, 49>>, DataAreaPlaceholder >> }

\* What a configuration file holds: read is the outcome of os.ReadFile, kind
\* the form of its text as for a body, Device its "Device" member (t is
\* "list", "num" or "absent").
ConfigFile(r, k, t, l) == [read |-> r, kind |-> k, Device |-> [t |-> t, l |-> l]]

ConfigFiles ==
    { ConfigFile("fail", "none", "absent", <<>>),
      ConfigFile("ok", "syntax", "list", << <<65, 49>> >>),
      ConfigFile("ok", "array", "absent", <<>>),
      ConfigFile("ok", "object", "num", <<>>),
      ConfigFile("ok", "object", "absent", <<>>),
      ConfigFile("ok", "object", "list", <<>>) }
      \cup { ConfigFile("ok", "object", "list", l) : l \in CreatedDevices }

\* json.Unmarshal(d, &conf) with conf the zero Config.
UnmarshalConfig(f) ==
    IF f.kind = "syntax" THEN [val |-> ZeroConfig, err |-> "SyntaxError"]
    ELSE IF f.kind = "array" \/ f.Device.t = "num"
    THEN [val |-> ZeroConfig, err |-> "UnmarshalTypeError"]
    ELSE [val |-> [Device |-> IF f.Device.t = "list" THEN f.Device.l ELSE <<>>],
          err |-> "nil"]

\* log.Fatalf
Fatalf ==
    /\ events' = Append(events, Event("fatal", ZeroDuration))
    /\ pc' = "exit"

\* The variables of the loop, which the statements before it leave alone.
locals == <<poll, delay, debug, samples, backoff, first, ans, resp, err, calls, sent>>

\* conf, err = createConfig(), the terminal giving the identifiers or failing.
CreateConfig ==
    /\ pc = "start"
    /\ newLogin
    /\ \/ /\ Fatalf
          /\ UNCHANGED conf
       \/ /\ \E l \in CreatedDevices : conf' = [Device |-> l]
          /\ pc' = "login"
          /\ UNCHANGED events
    /\ UNCHANGED <<newLogin, conn, saved>>
    /\ UNCHANGED <<locals, hex>>

\* os.ReadFile(*config) and json.Unmarshal(d, &conf).
ReadConfig ==
    /\ pc = "start"
    /\ ~newLogin
    /\ \E f \in ConfigFiles :
          IF f.read # "ok" \/ UnmarshalConfig(f).err # "nil"
          THEN Fatalf /\ UNCHANGED conf
          ELSE /\ conf' = UnmarshalConfig(f).val
               /\ pc' = "login"
               /\ UNCHANGED events
    /\ UNCHANGED <<newLogin, conn, saved>>
    /\ UNCHANGED <<locals, hex>>

\* conn, err := benwh.NewConn(conf), the server's reply being one of replies.
Login(replies) ==
    /\ pc = "login"
    /\ \E la \in replies :
          IF NewConn(conf, la).err # ErrNil
          THEN Fatalf /\ UNCHANGED conn
          ELSE /\ conn' = NewConn(conf, la).conn
               /\ pc' = "save"
               /\ UNCHANGED events
    /\ UNCHANGED <<newLogin, conf, saved>>
    /\ UNCHANGED <<locals, hex>>

\* if *newLogin { json.Marshal(conf); os.WriteFile(*config, d, 0600) }, the
\* write succeeding or failing; then the loop is entered.
SaveConfig ==
    /\ pc = "save"
    /\ IF newLogin
       THEN \/ /\ saved' = TRUE
               /\ pc' = "status"
               /\ UNCHANGED events
            \/ /\ Fatalf
               /\ UNCHANGED saved
       ELSE /\ pc' = "status"
            /\ UNCHANGED <<saved, events>>
    /\ UNCHANGED <<newLogin, conf, conn>>
    /\ UNCHANGED <<locals, hex>>

\* The program at its first statement, run with or without --newlogin and
\* with the default --poll and --delay.
InitMain ==
    /\ pc = "start"
    /\ newLogin \in BOOLEAN
    /\ conf = ZeroConfig
    /\ conn = NilConn
    /\ saved = FALSE
    /\ sent = NoRequest
    /\ hex = NoRoundTrip
    /\ poll = 1
    /\ delay = 0
    /\ debug = FALSE
    /\ samples = 0
    /\ backoff = Seconds(BaseBackoff)
    /\ first = TRUE
    /\ ans = NoAnswer
    /\ resp = NilDataStatus
    /\ err = ErrNil
    /\ calls = 0
    /\ events = <<>>

NextMain ==
    \/ CreateConfig
    \/ ReadConfig
    \/ Login(LoginAnswers)
    \/ SaveConfig
    \/ StatusPanics
    \/ CallStatus(Representatives)
    \/ CaseNil
    \/ CaseRetryLater
    \/ CaseDefault

SpecMain == InitMain /\ [][NextMain]_vars

(***************************************************************************)
(* The checksum's text form on its own: a 32-bit value is formatted as     *)
(* Status formats the checksum of its request, fmt.Sprintf("%08X", c), and *)
(* the text is parsed as Status parses the checksum of a response,         *)
(* strconv.ParseUint(s, 16, 32).  hex holds the value (checksum), its text *)
(* (crc) and the result of the parse (got); the variables of the program   *)
(* rest.                                                                   *)
(***************************************************************************)

\* 16-bit halves of the values tried: the ends of the range, the values
\* around each digit boundary, and 0x0123, 0x4567, 0x89AB, 0xCDEF (which
\* between them show every hex digit) and 0xABCD.
Halves ==
    { 0, 1, 9, 10, 15, 16, 255, 256, 4095, 4096, 32767, 32768, 65534, 65535,
      291, 17767, 35243, 52719, 43981 }

InitRoundTrip ==
    /\ AtLoop
    /\ poll = 1 /\ delay = 0 /\ debug = FALSE
    /\ \E h \in Halves, l \in Halves :
          hex = [at |-> "value", checksum |-> <<h, l>>, crc |-> <<>>,
                 got |-> [val |-> Zero32, err |-> "nil"]]

\* CRC: fmt.Sprintf("%08X", checksum)
Format ==
    /\ hex.at = "value"
    /\ hex' = [hex EXCEPT !.at = "text", !.crc = Sprintf08X(hex.checksum)]
    /\ UNCHANGED <<locals, pc, events, newLogin, conf, conn, saved>>

\* got, err2 := strconv.ParseUint(crc, 16, 32)
Parse ==
    /\ hex.at = "text"
    /\ hex' = [hex EXCEPT !.at = "parsed", !.got = ParseUint(hex.crc)]
    /\ UNCHANGED <<locals, pc, events, newLogin, conf, conn, saved>>

NextRoundTrip == Format \/ Parse

SpecRoundTrip == InitRoundTrip /\ [][NextRoundTrip]_vars

(***************************************************************************)
(* Vocabulary of the properties.                                           *)
(***************************************************************************)

\* A Status call has returned: ans is the reply it got, (resp, err) its result.
Returned == pc = "switch"

\* The call got a response from the server.
Received == Returned /\ ans.do = "ok" /\ ans.read = "ok"

\* The response is a well-formed envelope carrying status code c.
CarriesCode(c) == Received /\ ans.body.kind = "object" /\ ans.body.code = Num(c)

\* The response carries code 200, a checksum string and a payload string.
Carries200 ==
    /\ CarriesCode(200)
    /\ ans.body.crc.t = "str"
    /\ ans.body.dataArea.t = "str"

\* The checksum of the response's own payload, as the protocol defines it.
PayloadChecksum == ChecksumIEEE(Quote(ans.body.dataArea.s))

\* String x is a hex numeral of at most 32 bits.
WellFormedHex(x) == ParseUint(x).err = "nil"

\* String x is a hex numeral (either case) denoting c.
Declares(x, c) == WellFormedHex(x) /\ ParseUint(x).val = c

Fatal(e) == e \notin {ErrNil, ErrRetryLater}

(***************************************************************************)
(* Properties of Conn.Status, checked under SpecAnyReply.                  *)
(***************************************************************************)

\* C1: a response whose envelope carries status code 102 makes Status return
\* ErrRetryLater and no record, whatever its payload and declared checksum.
C1_Code102IsRetryLater ==
    CarriesCode(102) => (err = ErrRetryLater /\ resp = NilDataStatus)

\* C1 witness: a code-102 response whose payload and checksum would pass as a
\* code-200 response has been answered with ErrRetryLater.
C1_Witness ==
    /\ CarriesCode(102)
    /\ ans.body.dataArea = Str(PayloadSoc99)
    /\ ans.body.crc.t = "str"
    /\ Declares(ans.body.crc.s, PayloadChecksum)
    /\ err = ErrRetryLater

\* C2 (as claimed): a code-200 response whose declared checksum differs from
\* the CRC-32 of the quoted payload makes Status return a fatal error, not
\* ErrRetryLater, and no record.
C2_MismatchIsFatal ==
    (Carries200 /\ ~Declares(ans.body.crc.s, PayloadChecksum))
        => (Fatal(err) /\ resp = NilDataStatus)

\* C3: a code-200 response whose declared checksum, read as a hex number in
\* either case, equals the CRC-32 of the quoted payload makes Status return a
\* nil error and the record decoded from that response's own payload.
C3_MatchReturnsOwnRecord ==
    (Carries200 /\ Declares(ans.body.crc.s, PayloadChecksum))
        => /\ err = ErrNil
           /\ resp = UnmarshalDataStatus(ans.body.dataArea.s).val
           /\ resp.nil = FALSE

\* C3 witness: the second call of a run is answered {"soc":99} with its
\* checksum in lower case, and Status has returned the record with Soc = 99.
C3_Witness ==
    /\ Carries200
    /\ calls = 2
    /\ ans.body.dataArea.s = PayloadSoc99
    /\ ans.body.crc.s = ToLower(Sprintf08X(PayloadChecksum))
    /\ ans.body.crc.s # Sprintf08X(PayloadChecksum)
    /\ err = ErrNil
    /\ resp = [nil |-> FALSE, Soc |-> <<9, 9>>]

\* C4: a response whose status code is neither 102 nor 200 makes Status
\* return a fatal error carrying that code and no record, whatever its
\* checksum and payload.
C4_OtherCodeIsFatal ==
    \A c \in {b.code.n : b \in {x \in Bodies : x.code.t = "num"}} \ {102, 200} :
        CarriesCode(c) => /\ err = ErrUnexpectedCode(c)
                          /\ Fatal(err)
                          /\ resp = NilDataStatus

\* C4 witness: a code-404 response with a well-formed payload and a matching
\* checksum has been answered with the unexpected-code error.
C4_Witness ==
    /\ CarriesCode(404)
    /\ ans.body.dataArea = Str(PayloadSoc99)
    /\ ans.body.crc.t = "str"
    /\ Declares(ans.body.crc.s, PayloadChecksum)
    /\ err = ErrUnexpectedCode(404)

\* C8 (as claimed): a code-200 response with a matching checksum and a payload
\* that does not decode into the record makes Status return the payload
\* decode error.
C8_MalformedPayloadIsFatal ==
    (/\ Carries200
     /\ Declares(ans.body.crc.s, PayloadChecksum)
     /\ UnmarshalDataStatus(ans.body.dataArea.s).err # "nil")
        => err = Errorf("status report decode error")

\* C9 (as claimed): a response whose envelope fails to decode is never
\* treated as retryable or as a success.
C9_UndecodableEnvelopeIsFatal ==
    (Received /\ UnmarshalResponse(ans.body).err # "nil") => Fatal(err)

\* C10 (as claimed): a code-200 response whose declared checksum is no hex
\* numeral of at most 32 bits is never accepted.
C10_MalformedChecksumRejected ==
    (Carries200 /\ ~WellFormedHex(ans.body.crc.s)) => err # ErrNil

(***************************************************************************)
(* Properties of the polling loop, checked under Spec.                     *)
(***************************************************************************)

\* events[i], events[i+1] are the notice and the sleep of one retry.
RetryAt(i) ==
    /\ i + 1 <= Len(events)
    /\ events[i].e = "nodata"
    /\ events[i + 1].e = "sleep"

\* The retry at events[i] is the first since the start of the run or since
\* the last success (whose sample line and --delay sleep come just before).
FromBase(i) == i = 1 \/ (i >= 3 /\ events[i - 2].e \in {"sample", "debug"})

\* The waits of the three retries at events[i], events[i+2], events[i+4].
ThreeWaits(i) == <<events[i + 1].d, events[i + 3].d, events[i + 5].d>>

ThreeRetriesFromBase(i) ==
    FromBase(i) /\ RetryAt(i) /\ RetryAt(i + 2) /\ RetryAt(i + 4)

\* C5 (as claimed): from the 5s base, three consecutive retryable outcomes
\* produce waits of 5s, 10s and 20s.
C5_WaitsFromBase ==
    \A i \in 1..Len(events) :
        ThreeRetriesFromBase(i)
            => ThreeWaits(i) = <<Seconds(BaseBackoff), Seconds(2 * BaseBackoff),
                               Seconds(4 * BaseBackoff)>>

\* C5 (amended): from the 5s base, three consecutive retryable outcomes
\* produce waits of 10s, 20s and 40s: the backoff is doubled before each wait.
C5_WaitsDoubledFirst ==
    \A i \in 1..Len(events) :
        ThreeRetriesFromBase(i)
            => ThreeWaits(i) = <<Seconds(2 * BaseBackoff), Seconds(4 * BaseBackoff),
                               Seconds(8 * BaseBackoff)>>

\* C5 witness: three consecutive retries have been taken after a success.
C5_Witness == \E i \in 2..Len(events) : ThreeRetriesFromBase(i)

\* C6: every success sets the backoff to the 5s base, so the first wait after
\* a success (as after the start) is the same whatever retries came before it.
C6_SuccessResetsBackoff ==
    /\ [][(pc = "switch" /\ err = ErrNil) => backoff' = Seconds(BaseBackoff)]_vars
    /\ [](\A i \in 1..Len(events) :
             (FromBase(i) /\ RetryAt(i)) => events[i + 1].d = Seconds(2 * BaseBackoff))

\* C6 witness: a retry has followed a success that itself followed a retry.
C6_Witness ==
    \E i \in 3..Len(events) :
        /\ RetryAt(i) /\ FromBase(i)
        /\ \E j \in 1..(i - 1) : RetryAt(j)

\* C7: an error other than ErrRetryLater ends the run: the step that handles
\* it calls nothing, sleeps for nothing and emits no sample, and no step
\* follows it.
C7_FatalIsTerminal ==
    [][/\ (pc = "switch" /\ Fatal(err))
            => /\ pc' = "exit"
               /\ calls' = calls
               /\ events' = Append(events, Event("fatal", ZeroDuration))
       /\ pc # "exit"]_vars

\* C7 witness: the run has ended on a fatal error after a sample was emitted.
C7_Witness ==
    /\ pc = "exit"
    /\ \E i \in 1..Len(events) : events[i].e = "sample"
    /\ events[Len(events)].e = "fatal"

(***************************************************************************)
(* Properties of NewConn and of the statements of main before the loop,    *)
(* checked under SpecMain.                                                 *)
(***************************************************************************)

\* NewConn has returned a session to main.
LoggedIn == conn.nil = FALSE

\* C11 (as claimed): NewConn returns no session when the login response
\* lacks a usable token: a session it returns never has an empty token.
C11_SessionHasToken == LoggedIn => conn.token # <<>>

\* C12 (as claimed): with --newlogin the configuration file is written only
\* if the login yielded a token: in a run whose login response carries no
\* token the file is never written.
C12_SavedOnlyWithToken == saved => conn.token # <<>>

(***************************************************************************)
(* Properties of the request Conn.Status builds, checked under SpecMain.   *)
(***************************************************************************)

\* Status has built the request of the current call.
Built == sent # NoRequest

\* The envelope the protocol asks for, for device dev at time now:
\*   {"lang":"EN_US","cmdType":203,"equipNo":<dev as a JSON string>,
\*    "type":0,"timeStamp":<now>,"snno":1,"len":25,"crc":"6FC3A6BF",
\*    "dataArea":{"opt":1,"refreshData":1}}
\* with 25 the length and 6FC3A6BF the CRC-32 of the inner payload.
SplicedEnvelope(dev, now) ==
    <<123, 34, 108, 97, 110, 103, 34, 58, 34, 69, 78, 95, 85, 83, 34, 44,
        34, 99, 109, 100, 84, 121, 112, 101, 34, 58, 50, 48, 51, 44, 34, 101,
        113, 117, 105, 112, 78, 111, 34, 58>>
    \o MarshalString(dev)
    \o <<44, 34, 116, 121, 112, 101, 34, 58, 48, 44, 34, 116, 105, 109, 101,
        83, 116, 97, 109, 112, 34, 58>>
    \o Itoa(now)
    \o <<44, 34, 115, 110, 110, 111, 34, 58, 49, 44, 34, 108, 101, 110, 34,
        58, 50, 53, 44, 34, 99, 114, 99, 34, 58, 34, 54, 70, 67, 51, 65, 54,
        66, 70, 34, 44, 34, 100, 97, 116, 97, 65, 114, 101, 97, 34, 58, 123,
        34, 111, 112, 116, 34, 58, 49, 44, 34, 114, 101, 102, 114, 101, 115,
        104, 68, 97, 116, 97, 34, 58, 49, 125, 125>>

\* C13 (as claimed): for every device identifier, the placeholder text
\* included, the request has the inner payload in its dataArea slot, every
\* other member with its own serialized value, and len and crc the length
\* and the upper-case CRC-32 of the inner payload.
C13_EnvelopeSpliced ==
    Built => sent.j = SplicedEnvelope(conn.config.Device[1], sent.now)

(***************************************************************************)
(* Property of the checksum's text form, checked under SpecRoundTrip.      *)
(***************************************************************************)

\* Byte c is one of 0..9, A..F.
IsUpperHex(c) == (c >= 48 /\ c <= 57) \/ (c >= 65 /\ c <= 70)

\* C14: the text of a 32-bit value has exactly 8 characters, all upper-case
\* hex digits, and parsing it in base 16 with a 32-bit limit succeeds and
\* yields the value.
C14_HexRoundTrip ==
    /\ hex.at \in {"text", "parsed"}
          => /\ Len(hex.crc) = 8
             /\ \A i \in 1..Len(hex.crc) : IsUpperHex(hex.crc[i])
    /\ hex.at = "parsed"
          => /\ hex.got.err = "nil"
             /\ hex.got.val = hex.checksum

\* C14 witness: 0x0000ABCD, which needs zero padding and letters, has been
\* formatted as 0000ABCD and parsed back.
C14_Witness ==
    /\ hex.at = "parsed"
    /\ hex.checksum = <<0, 43981>>
    /\ hex.crc = <<48, 48, 48, 48, 65, 66, 67, 68>>
    /\ hex.got.val = <<0, 43981>>

(***************************************************************************)
(* Properties of the loop's sample counting, checked under SpecLive and    *)
(* under Spec.                                                             *)
(***************************************************************************)

\* The samples the program has logged.
SamplesTaken == Cardinality({i \in 1..Len(events) : events[i].e \in {"sample", "debug"}})

\* The number of samples after which the loop is to stop.
SamplesWanted == IF delay = 0 THEN 1 ELSE poll

\* C15: the loop stops after exactly one sample when --delay is 0 and after
\* exactly --poll samples when --delay > 0 and --poll >= 1; a retryable
\* outcome is not counted as a sample; and without a fatal error and with
\* finitely many retryable outcomes the loop eventually stops.
C15_StopsAfterWantedSamples ==
    /\ [](SamplesTaken <= SamplesWanted)
    /\ [](pc = "done" <=> (pc \in {"status", "done"} /\ SamplesTaken = SamplesWanted))
    /\ [][(pc = "switch" /\ err = ErrRetryLater)
             => (samples' = samples /\ SamplesTaken' = SamplesTaken)]_vars
    /\ <>(pc = "done")

\* C15 witness: with --delay > 0 and --poll = MaxPoll the loop has stopped
\* after MaxPoll samples, a retry having come between them.
C15_Witness ==
    /\ pc = "done"
    /\ delay > 0
    /\ poll = MaxPoll
    /\ SamplesTaken = MaxPoll
    /\ \E i \in 2..Len(events) :
          /\ RetryAt(i)
          /\ \E j \in 1..(i - 1) : events[j].e \in {"sample", "debug"}

(***************************************************************************)
(* Property of the backoff in a long run of retries, checked under         *)
(* SpecRetryRun.                                                           *)
(***************************************************************************)

\* Duration y is, as a number, exactly twice duration x: y is the doubled x
\* and the doubling did not leave the range of int64 (x is not negative
\* and is below 2^62).
IsTwice(y, x) == y = Times(x, 2) /\ x[1] < 16384

\* C16 (as claimed): each retryable outcome is followed by a wait of the
\* doubled backoff, with no ceiling: the first wait after the start or a
\* success is 10s, each later wait of the run is exactly twice the one
\* before it (so the k-th is 5s * 2^k), and a retryable outcome never ends
\* the loop.
C16_WaitsDoubleWithoutCeiling ==
    /\ [](\A i \in 1..Len(events) :
             RetryAt(i)
                => /\ events[i].d = events[i + 1].d
                   /\ FromBase(i) => events[i + 1].d = Seconds(2 * BaseBackoff)
                   /\ (i > 2 /\ RetryAt(i - 2))
                         => IsTwice(events[i + 1].d, events[i - 1].d))
    /\ [][(pc = "switch" /\ err = ErrRetryLater) => pc' = "status"]_vars

(***************************************************************************)
(* Property of the results of Conn.Status, checked under SpecAnyReply.     *)
(***************************************************************************)

\* C17: of the record and the error Status returns exactly one is non-nil,
\* so the record the loop reads when the error is nil is never nil.
C17_RecordOrError ==
    Returned => /\ (resp.nil = FALSE) <=> (err = ErrNil)
                /\ resp.nil => resp = NilDataStatus

\* C17 witness: a code-200 response with a matching checksum and a payload
\* cut short has been answered with a record and a nil error.
C17_Witness ==
    /\ Carries200
    /\ ans.body.dataArea.s = PayloadTruncated
    /\ Declares(ans.body.crc.s, PayloadChecksum)
    /\ resp.nil = FALSE
    /\ err = ErrNil

(***************************************************************************)
(* Property of Conn.Status on the configurations NewConn accepts, checked  *)
(* under SpecMain.                                                         *)
(***************************************************************************)

\* C18 (as claimed): on every configuration NewConn accepts, one without
\* device identifiers included, Status returns a record or an error: it
\* never aborts while it builds the request from the first identifier.
C18_StatusNeverAborts == LoggedIn => pc # "panic"

(***************************************************************************)
(* Properties of the lines the loop logs and of its end, checked under     *)
(* Spec.                                                                   *)
(***************************************************************************)

\* The positions in events of the lines with text e.
Lines(e) == {i \in 1..Len(events) : events[i].e = e}

\* C19 (as claimed): without --debug, a run that has logged a sample has
\* logged the header exactly once, before its first sample, whether or not
\* retryable outcomes came before the first success.
C19_HeaderBeforeFirstSample ==
    (~debug /\ Lines("sample") # {})
        => /\ Cardinality(Lines("header")) = 1
           /\ \A h \in Lines("header") : \A i \in Lines("sample") : h < i

====
